---- MODULE Spec2Model ----
(***************************************************************************)
(* Model of the avocado plant monitor (jnaranja/aivocado): the range       *)
(* classifier and dashboard helpers of display.py, the advisor of          *)
(* ai_advisor.py, the telemetry client of api_client.py and the sensor     *)
(* sources of sensors.py.                                                  *)
(*                                                                         *)
(* Conventions.  Python floats are modelled by integers.  A Python str     *)
(* that the program builds or inspects is a sequence of one-character      *)
(* strings, so that joining, searching and case folding are computed.      *)
(* Python's None is the string "None"; os.getenv of an unset variable is   *)
(* None.  Each component has its own specification (SpecDisplay,           *)
(* SpecAdvisor, SpecApi, SpecSensors); the variables of the other          *)
(* components stay at their idle values.                                   *)
(***************************************************************************)
EXTENDS Integers, Sequences, FiniteSets, TLC

VARIABLES
    value,            \* display.py: argument value of get_status_indicator
    optimal_range,    \* display.py: argument optimal_range, <<low, high>>
    status,           \* display.py: token returned by get_status_indicator
    min_val,          \* display.py: argument min_val of create_bar
    max_val,          \* display.py: argument max_val of create_bar
    width,            \* display.py: argument width of create_bar
    bar,              \* display.py: str returned by create_bar
    ai_recommendation, \* display.py: argument ai_recommendation of display_reading
    lines,            \* display.py: <<>>, or <<the advisory lines display_reading printed>>
    reading,          \* the SensorReading in hand: <<>> (none yet) or <<r>>
    client,           \* AIAdvisor._client is set
    advice,           \* outcome of the last AIAdvisor call
    base_url,         \* APIClient._base_url
    api_key,          \* APIClient._api_key
    enabled,          \* APIClient._enabled
    http_log,         \* paths of the httpx.post attempts made so far
    push,             \* the last APIClient.push_* call: its arguments and outcome
    sensors,          \* which source get_sensor_interface returned
    initialized,      \* RaspberryPiSensors._initialized
    timestamps,       \* timestamps of the last two readings returned
    hardware,         \* what the hardware did during the last read
    clock,            \* the system clock, seconds since the epoch
    utc_offset,       \* local-time offset in force (time zone, DST)
    args,             \* main.py: the parsed --interval and --ai-interval
    pc,               \* main.py: the statement main executes next
    iteration,        \* main.py: how many iterations of the loop have begun
    steps,            \* main.py: the statements the current iteration has completed
    last_ai_update,   \* main.py: local last_ai_update
    current_time,     \* main.py: local current_time
    current_recommendation, \* main.py: local current_recommendation
    wake_at,          \* main.py: the time at which the running time.sleep returns
    exception,        \* main.py: the exception that ended the loop, "" while it runs
    exit_status       \* main.py: <<>> while the process runs, <<status>> once it has exited

classifyVars == <<value, optimal_range, status>>
barVars == <<min_val, max_val, width, bar>>
wrapVars == <<ai_recommendation, lines>>
displayVars == <<classifyVars, barVars, wrapVars>>
advisorVars == <<client, advice>>
apiVars == <<base_url, api_key, enabled, http_log, push>>
sensorVars == <<sensors, initialized, timestamps, hardware, clock, utc_offset>>
loopVars == <<args, pc, iteration, steps, last_ai_update, current_time,
              current_recommendation, wake_at, exception, exit_status>>
vars == <<displayVars, reading, advisorVars, apiVars, sensorVars, loopVars>>

\* what the operations of one component leave alone
besideDisplay == <<reading, advisorVars, apiVars, sensorVars, loopVars>>
besideAdvisor == <<displayVars, reading, apiVars, sensorVars, loopVars>>
besideApi == <<displayVars, reading, advisorVars, sensorVars, loopVars>>
besideSensors == <<displayVars, advisorVars, apiVars, loopVars>>

(***************************************************************************)
(* Bounds of the model                                                     *)
(***************************************************************************)
\* get_status_indicator is applied to ranges with 0 <= low < high <= MaxBound
MaxBound == 4
\* values tried lie up to Margin outside a range
Margin == 1

(***************************************************************************)
(* Python helpers                                                          *)
(***************************************************************************)
PyMax(a, b) == IF a >= b THEN a ELSE b
PyMin(a, b) == IF a <= b THEN a ELSE b

(***************************************************************************)
(* display.py                                                              *)
(***************************************************************************)
TempLow == 18
TempHigh == 26
HumLow == 50
HumHigh == 70
Co2Low == 400
Co2High == 800
LightLow == 2000
LightHigh == 10000

OPTIMAL_RANGES ==
    [temperature |-> <<TempLow, TempHigh>>,
     humidity |-> <<HumLow, HumHigh>>,
     co2 |-> <<Co2Low, Co2High>>,
     light |-> <<LightLow, LightHigh>>]

\* a plausible slip: exclusive comparisons, so a boundary value is not optimal
get_status_indicator_strict(v, rng) ==
    LET low == rng[1]
        high == rng[2]
    IN  IF low < v /\ v < high THEN "[OK]"
        ELSE IF v < low THEN "[LOW]"
        ELSE "[HIGH]"

get_status_indicator(v, rng) ==
    LET low == rng[1]
        high == rng[2]
    IN  IF low <= v /\ v <= high THEN "[OK]"
        ELSE IF v < low THEN "[LOW]"
        ELSE "[HIGH]"

NoStatus == "none"

Ranges == {<<l, h>> \in (0..MaxBound) \X (0..MaxBound) : l < h}
Values == (0 - Margin)..(MaxBound + Margin)

NoBar == <<>>

BarIdle ==
    /\ min_val = 0
    /\ max_val = 1
    /\ width = 0
    /\ bar = NoBar

WrapIdle ==
    /\ ai_recommendation = <<>>
    /\ lines = <<>>

DisplayIdle ==
    /\ value = 0
    /\ optimal_range = <<0, 1>>
    /\ status = NoStatus
    /\ BarIdle
    /\ WrapIdle

DisplayInit ==
    /\ value \in Values
    /\ optimal_range \in Ranges
    /\ status = NoStatus
    /\ BarIdle
    /\ WrapIdle

\* a caller evaluates get_status_indicator(value, optimal_range)
GetStatusIndicator ==
    /\ status = NoStatus
    /\ status' = get_status_indicator(value, optimal_range)
    /\ UNCHANGED <<value, optimal_range, barVars, wrapVars, besideDisplay>>

\* the caller moves on to another value and range
NextInput ==
    /\ status # NoStatus
    /\ value' \in Values
    /\ optimal_range' \in Ranges
    /\ status' = NoStatus
    /\ UNCHANGED <<barVars, wrapVars, besideDisplay>>

DisplayNext ==
    \/ GetStatusIndicator
    \/ NextInput

\* create_bar is applied with widths 0..MaxWidth
MaxWidth == 10

\* c * n
Repeat(c, n) == [i \in 1..n |-> c]

\* a plausible slip: the clamp of normalized to [0, 1] left out
create_bar_unclamped(v, mn, mx, w) ==
    LET filled == ((v - mn) * w) \div (mx - mn)
    IN  <<"[">> \o Repeat("#", filled) \o Repeat("-", w - filled) \o <<"]">>

\* create_bar.  normalized is the fraction (v - mn) / (mx - mn); clamped to
\* [0, 1] it is cn / (mx - mn), and int() of a number >= 0 is its floor
create_bar(v, mn, mx, w) ==
    LET den == mx - mn
        cn == PyMax(0, PyMin(den, v - mn))
        filled == (cn * w) \div den
    IN  <<"[">> \o Repeat("#", filled) \o Repeat("-", w - filled) \o <<"]">>

BarInit ==
    /\ value \in Values
    /\ optimal_range = <<0, 1>>
    /\ status = NoStatus
    /\ \E rng \in Ranges : min_val = rng[1] /\ max_val = rng[2]
    /\ width \in 0..MaxWidth
    /\ bar = NoBar
    /\ WrapIdle

\* a caller evaluates create_bar(value, min_val, max_val, width)
CreateBar ==
    /\ bar = NoBar
    /\ bar' = create_bar(value, min_val, max_val, width)
    /\ UNCHANGED <<classifyVars, min_val, max_val, width, wrapVars, besideDisplay>>

\* the caller moves on to another width
NextWidth ==
    /\ bar # NoBar
    /\ width' \in 0..MaxWidth
    /\ bar' = NoBar
    /\ UNCHANGED <<classifyVars, min_val, max_val, wrapVars, besideDisplay>>

BarNext ==
    \/ CreateBar
    \/ NextWidth

\* display_reading is given texts of up to MaxWords words
MaxWords == 3

WrapWidth == 58

\* the two spaces every advisory line starts with
Indent == <<" ", " ">>

IsSpace(c) == c \in {" ", "\t", "\n"}

\* the k-th smallest member of a set of integers
Nth(S, k) == CHOOSE i \in S : Cardinality({j \in S : j < i}) = k - 1

\* str.split(): the maximal runs of non-whitespace characters, in order
Split(text) ==
    LET starts == {i \in 1..Len(text) : ~IsSpace(text[i]) /\ (i = 1 \/ IsSpace(text[i - 1]))}
        ends == {i \in 1..Len(text) : ~IsSpace(text[i]) /\ (i = Len(text) \/ IsSpace(text[i + 1]))}
    IN  [k \in 1..Cardinality(starts) |-> SubSeq(text, Nth(starts, k), Nth(ends, k))]

\* line.strip() is not empty
StripsToText(line) == \E i \in 1..Len(line) : ~IsSpace(line[i])

\* the for loop of display_reading: line is the line being filled, out the
\* lines printed so far; the result is the lines printed when the loop and
\* the final "if line.strip(): print(line)" are done
RECURSIVE WrapLoop(_, _, _)
WrapLoop(words, line, out) ==
    IF words = <<>>
    THEN IF StripsToText(line) THEN Append(out, line) ELSE out
    ELSE LET word == Head(words)
         IN  IF Len(line) + Len(word) + 1 > WrapWidth
             THEN WrapLoop(Tail(words), Indent \o word, Append(out, line))
             ELSE WrapLoop(Tail(words),
                           IF line # Indent THEN line \o <<" ">> \o word ELSE line \o word,
                           out)

\* the advisory lines display_reading prints between the "-" rule and the
\* closing "=" rule; none when ai_recommendation is empty
AdvisoryLines(text) ==
    IF text = <<>> THEN <<>>
    ELSE WrapLoop(Split(text), Indent, <<>>)

\* the texts tried: up to MaxWords words, the k-th made of the k-th letter,
\* of lengths around the widest word a line can hold, one or two spaces apart
WordLetters == <<"a", "b", "c", "d", "e", "f", "g", "h">>
WordLengths == {1, 28, 55, 56}
WordLists == UNION {[1..n -> WordLengths] : n \in 0..MaxWords}
Gaps == {<<" ">>, <<" ", " ">>}
RECURSIVE TextFrom(_, _, _)
TextFrom(lens, k, gap) ==
    IF k > Len(lens) THEN <<>>
    ELSE (IF k > 1 THEN gap ELSE <<>>) \o Repeat(WordLetters[k], lens[k]) \o TextFrom(lens, k + 1, gap)
TextOf(lens, gap) == TextFrom(lens, 1, gap)
WrapInputs == {TextOf(lens, gap) : lens \in WordLists, gap \in Gaps}

WrapInit ==
    /\ value = 0
    /\ optimal_range = <<0, 1>>
    /\ status = NoStatus
    /\ BarIdle
    /\ ai_recommendation \in WrapInputs
    /\ lines = <<>>

\* display_reading(reading, ai_recommendation): its advisory block
DisplayAdvisory ==
    /\ lines = <<>>
    /\ lines' = <<AdvisoryLines(ai_recommendation)>>
    /\ UNCHANGED <<classifyVars, barVars, ai_recommendation, besideDisplay>>

WrapNext == DisplayAdvisory

(***************************************************************************)
(* sensors.py: SensorReading                                               *)
(***************************************************************************)
SensorReading(ts, t, h, c, l) ==
    [timestamp |-> ts, temperature_c |-> t, humidity_percent |-> h,
     co2_ppm |-> c, light_lux |-> l]

HasReading == reading # <<>>
Current == reading[1]

(***************************************************************************)
(* Python str helpers (str as a sequence of characters)                    *)
(***************************************************************************)
\* issues[:n]
Take(s, n) == SubSeq(s, 1, PyMin(n, Len(s)))

\* sep.join(parts)
RECURSIVE Join(_, _)
Join(sep, parts) ==
    IF parts = <<>> THEN <<>>
    ELSE IF Len(parts) = 1 THEN parts[1]
    ELSE parts[1] \o sep \o Join(sep, Tail(parts))

\* the start indices of the occurrences of pat in text
Occurrences(pat, text) ==
    {i \in 1..(Len(text) - Len(pat) + 1) : SubSeq(text, i, i + Len(pat) - 1) = pat}

\* pat in text
Contains(pat, text) == Occurrences(pat, text) # {}

(***************************************************************************)
(* ai_advisor.py                                                           *)
(***************************************************************************)
\* "Temperature too low - consider warming the area"
IssueTempLow ==
    <<"T", "e", "m", "p", "e", "r", "a", "t", "u", "r", "e", " ", "t", "o",
      "o", " ", "l", "o", "w", " ", "-", " ", "c", "o", "n", "s", "i", "d",
      "e", "r", " ", "w", "a", "r", "m", "i", "n", "g", " ", "t", "h", "e",
      " ", "a", "r", "e", "a">>

\* "Temperature too high - improve ventilation"
IssueTempHigh ==
    <<"T", "e", "m", "p", "e", "r", "a", "t", "u", "r", "e", " ", "t", "o",
      "o", " ", "h", "i", "g", "h", " ", "-", " ", "i", "m", "p", "r", "o",
      "v", "e", " ", "v", "e", "n", "t", "i", "l", "a", "t", "i", "o", "n">>

\* "Humidity too low - mist leaves or use humidifier"
IssueHumLow ==
    <<"H", "u", "m", "i", "d", "i", "t", "y", " ", "t", "o", "o", " ", "l",
      "o", "w", " ", "-", " ", "m", "i", "s", "t", " ", "l", "e", "a", "v",
      "e", "s", " ", "o", "r", " ", "u", "s", "e", " ", "h", "u", "m", "i",
      "d", "i", "f", "i", "e", "r">>

\* "Humidity too high - improve air circulation"
IssueHumHigh ==
    <<"H", "u", "m", "i", "d", "i", "t", "y", " ", "t", "o", "o", " ", "h",
      "i", "g", "h", " ", "-", " ", "i", "m", "p", "r", "o", "v", "e", " ",
      "a", "i", "r", " ", "c", "i", "r", "c", "u", "l", "a", "t", "i", "o",
      "n">>

\* "CO2 below normal - ensure adequate ventilation"
IssueCo2Low ==
    <<"C", "O", "2", " ", "b", "e", "l", "o", "w", " ", "n", "o", "r", "m",
      "a", "l", " ", "-", " ", "e", "n", "s", "u", "r", "e", " ", "a", "d",
      "e", "q", "u", "a", "t", "e", " ", "v", "e", "n", "t", "i", "l", "a",
      "t", "i", "o", "n">>

\* "CO2 elevated - increase fresh air exchange"
IssueCo2High ==
    <<"C", "O", "2", " ", "e", "l", "e", "v", "a", "t", "e", "d", " ", "-",
      " ", "i", "n", "c", "r", "e", "a", "s", "e", " ", "f", "r", "e", "s",
      "h", " ", "a", "i", "r", " ", "e", "x", "c", "h", "a", "n", "g", "e">>

\* "Light insufficient - move closer to window or add grow light"
IssueLightLow ==
    <<"L", "i", "g", "h", "t", " ", "i", "n", "s", "u", "f", "f", "i", "c",
      "i", "e", "n", "t", " ", "-", " ", "m", "o", "v", "e", " ", "c", "l",
      "o", "s", "e", "r", " ", "t", "o", " ", "w", "i", "n", "d", "o", "w",
      " ", "o", "r", " ", "a", "d", "d", " ", "g", "r", "o", "w", " ", "l",
      "i", "g", "h", "t">>

\* "Light too intense - add shade or move plant"
IssueLightHigh ==
    <<"L", "i", "g", "h", "t", " ", "t", "o", "o", " ", "i", "n", "t", "e",
      "n", "s", "e", " ", "-", " ", "a", "d", "d", " ", "s", "h", "a", "d",
      "e", " ", "o", "r", " ", "m", "o", "v", "e", " ", "p", "l", "a", "n",
      "t">>

\* "All conditions optimal! Your avocado plant is in a great environment."
AllOptimal ==
    <<"A", "l", "l", " ", "c", "o", "n", "d", "i", "t", "i", "o", "n", "s",
      " ", "o", "p", "t", "i", "m", "a", "l", "!", " ", "Y", "o", "u", "r",
      " ", "a", "v", "o", "c", "a", "d", "o", " ", "p", "l", "a", "n", "t",
      " ", "i", "s", " ", "i", "n", " ", "a", " ", "g", "r", "e", "a", "t",
      " ", "e", "n", "v", "i", "r", "o", "n", "m", "e", "n", "t", ".">>

\* " | "
Separator == <<" ", "|", " ">>

\* a plausible slip: the two temperature sentences exchanged
TemperatureIssueSwapped(r) ==
    IF r.temperature_c < OPTIMAL_RANGES.temperature[1] THEN <<IssueTempHigh>>
    ELSE IF r.temperature_c > OPTIMAL_RANGES.temperature[2] THEN <<IssueTempLow>>
    ELSE <<>>

\* a plausible slip: boundary values reported as out of range
TemperatureIssueExclusive(r) ==
    IF r.temperature_c <= OPTIMAL_RANGES.temperature[1] THEN <<IssueTempLow>>
    ELSE IF r.temperature_c >= OPTIMAL_RANGES.temperature[2] THEN <<IssueTempHigh>>
    ELSE <<>>

\* what the temperature test appends to issues
TemperatureIssue(r) ==
    IF r.temperature_c < OPTIMAL_RANGES.temperature[1] THEN <<IssueTempLow>>
    ELSE IF r.temperature_c > OPTIMAL_RANGES.temperature[2] THEN <<IssueTempHigh>>
    ELSE <<>>

\* a plausible slip: the boundaries of the humidity range counted as issues
HumidityIssueInclusive(r) ==
    IF r.humidity_percent <= OPTIMAL_RANGES.humidity[1] THEN <<IssueHumLow>>
    ELSE IF r.humidity_percent >= OPTIMAL_RANGES.humidity[2] THEN <<IssueHumHigh>>
    ELSE <<>>

HumidityIssue(r) ==
    IF r.humidity_percent < OPTIMAL_RANGES.humidity[1] THEN <<IssueHumLow>>
    ELSE IF r.humidity_percent > OPTIMAL_RANGES.humidity[2] THEN <<IssueHumHigh>>
    ELSE <<>>

Co2Issue(r) ==
    IF r.co2_ppm < OPTIMAL_RANGES.co2[1] THEN <<IssueCo2Low>>
    ELSE IF r.co2_ppm > OPTIMAL_RANGES.co2[2] THEN <<IssueCo2High>>
    ELSE <<>>

LightIssue(r) ==
    IF r.light_lux < OPTIMAL_RANGES.light[1] THEN <<IssueLightLow>>
    ELSE IF r.light_lux > OPTIMAL_RANGES.light[2] THEN <<IssueLightHigh>>
    ELSE <<>>

\* the list issues when the four tests have run
Issues(r) ==
    TemperatureIssue(r) \o HumidityIssue(r) \o Co2Issue(r) \o LightIssue(r)

\* a plausible slip: the issue list joined without the [:2] cut
get_fallback_recommendation_uncut(r) ==
    IF Issues(r) = <<>> THEN AllOptimal
    ELSE Join(Separator, Issues(r))

\* AIAdvisor._get_fallback_recommendation
get_fallback_recommendation(r) ==
    IF Issues(r) = <<>> THEN AllOptimal
    ELSE Join(Separator, Take(Issues(r), 2))

\* Python truthiness of an optional str, and "a or b"
Truthy(s) == s # "None" /\ s # ""
PyOr(a, b) == IF Truthy(a) THEN a ELSE b

\* what a caller passes as api_key, and what os.getenv may return
KeyInputs == {"None", "", "secret"}

\* the texts the recommendation service answers with
ServiceTexts == {<<"M", "i", "s", "t">>, <<"O", "K">>}

\* a content block of a response: only a "text" block has the attribute text
ContentBlocks ==
    {[type |-> "text", text |-> t] : t \in ServiceTexts}
        \cup {[type |-> "tool_use", text |-> <<>>]}

\* subclasses of Exception that client.messages.create can raise
ServiceErrors == {"APIConnectionError", "APITimeoutError", "AuthenticationError"}

\* what one call of client.messages.create does: raise, or return a response
ServiceOutcomes ==
    {[kind |-> "raise", error |-> e, content |-> <<>>] : e \in ServiceErrors}
        \cup {[kind |-> "response", error |-> "", content |-> c] :
                c \in {<<>>} \cup {<<b>> : b \in ContentBlocks}}

NotCalled == [kind |-> "not_called", error |-> "", content |-> <<>>]

\* the body of the try block: the value returned, or the exception raised
TryCreate(o) ==
    IF o.kind = "raise" THEN [exc |-> o.error, ret |-> <<>>]
    ELSE IF Len(o.content) = 0 THEN [exc |-> "IndexError", ret |-> <<>>]
    ELSE IF o.content[1].type # "text" THEN [exc |-> "AttributeError", ret |-> <<>>]
    ELSE [exc |-> "", ret |-> o.content[1].text]

\* a plausible slip: only the service's own errors are caught
CaughtApiErrorOnly(exc) == exc \in ServiceErrors

\* except Exception: every exception class the try body can raise derives from it
Caught(exc) == exc \in ServiceErrors \cup {"IndexError", "AttributeError"}

\* AIAdvisor.get_recommendation, o being what the service does if it is called
get_recommendation(r, cl, o) ==
    IF ~cl
    THEN [ret |-> get_fallback_recommendation(r), raised |-> FALSE,
          service_calls |-> 0, outcome |-> NotCalled]
    ELSE LET t == TryCreate(o)
         IN  IF t.exc = ""
             THEN [ret |-> t.ret, raised |-> FALSE, service_calls |-> 1, outcome |-> o]
             ELSE IF Caught(t.exc)
             THEN [ret |-> get_fallback_recommendation(r), raised |-> FALSE,
                   service_calls |-> 1, outcome |-> o]
             ELSE [ret |-> <<>>, raised |-> TRUE, service_calls |-> 1, outcome |-> o]

Probe(low, high) ==
    {low - d : d \in 1..Margin} \cup {low, high} \cup {high + d : d \in 1..Margin}

\* the reading of the tests' all_out_of_range_reading fixture
AllOutOfRangeReading == SensorReading(0, 35, 20, 1200, 500)

\* the readings the advisor is tried on: each metric at, and beside, its
\* bounds, and the all-out-of-range reading of the tests
ReadingInputs ==
    {SensorReading(0, t, h, c, l) :
        t \in Probe(TempLow, TempHigh), h \in Probe(HumLow, HumHigh),
        c \in Probe(Co2Low, Co2High), l \in Probe(LightLow, LightHigh)}
    \cup {AllOutOfRangeReading}

NoAdvice ==
    [op |-> "none", ret |-> <<>>, raised |-> FALSE, service_calls |-> 0,
     outcome |-> NotCalled]

AdvisorIdle ==
    /\ client = FALSE
    /\ advice = NoAdvice

\* AIAdvisor.__init__(api_key), with ANTHROPIC_API_KEY set or not
AdvisorInit ==
    /\ \E arg \in KeyInputs, env \in KeyInputs : client = Truthy(PyOr(arg, env))
    /\ advice = NoAdvice

\* advisor.get_recommendation(reading)
GetRecommendation ==
    /\ HasReading
    /\ \E o \in ServiceOutcomes :
          LET res == get_recommendation(Current, client, o)
          IN  advice' = [op |-> "get_recommendation", ret |-> res.ret,
                         raised |-> res.raised, service_calls |-> res.service_calls,
                         outcome |-> res.outcome]
    /\ UNCHANGED <<client, besideAdvisor>>

\* advisor._get_fallback_recommendation(reading), as the tests call it
GetFallbackRecommendation ==
    /\ HasReading
    /\ advice' = [op |-> "fallback", ret |-> get_fallback_recommendation(Current),
                  raised |-> FALSE, service_calls |-> 0, outcome |-> NotCalled]
    /\ UNCHANGED <<client, besideAdvisor>>

AdvisorNext ==
    \/ GetRecommendation
    \/ GetFallbackRecommendation

(***************************************************************************)
(* api_client.py                                                           *)
(***************************************************************************)
\* the pushes a run makes are capped at MaxRequests
MaxRequests == 2

HTTP_OK == 200

\* what a caller passes to APIClient(), and what os.getenv may return
UrlArgs == {"None", "", "http://arg"}
UrlEnvs == {"None", "", "http://env"}
KeyArgs == {"None", "", "arg-key"}
KeyEnvs == {"None", "", "env-key"}

\* what one httpx.post does: raise, or return a response with a status code
HttpErrors == {"ConnectError", "TimeoutException", "TypeError"}
HttpStatuses == {HTTP_OK, 201, 204, 401, 404, 500}
HttpOutcomes ==
    {[kind |-> "raise", error |-> e, status_code |-> 0] : e \in HttpErrors}
        \cup {[kind |-> "response", error |-> "", status_code |-> s] : s \in HttpStatuses}

NoHttp == [kind |-> "not_called", error |-> "", status_code |-> 0]

\* a plausible slip: every 2xx status reported as success
PostResultAny2xx(path, o) ==
    IF o.kind = "raise"
    THEN [ret |-> FALSE, raised |-> FALSE, sent |-> <<path>>, outcome |-> o]
    ELSE [ret |-> (o.status_code >= 200 /\ o.status_code < 300), raised |-> FALSE,
          sent |-> <<path>>, outcome |-> o]

\* the try block shared by the three pushes: one httpx.post to base_url + path,
\* resp.status_code == 200 returned, any Exception caught and False returned
PostResult(path, o) ==
    IF o.kind = "raise"
    THEN [ret |-> FALSE, raised |-> FALSE, sent |-> <<path>>, outcome |-> o]
    ELSE [ret |-> (o.status_code = HTTP_OK), raised |-> FALSE,
          sent |-> <<path>>, outcome |-> o]

Disabled == [ret |-> FALSE, raised |-> FALSE, sent |-> <<>>, outcome |-> NoHttp]

\* a plausible slip: the guard on _enabled left out of push_alert
push_alert_unguarded(en, o) == PostResult("/alerts", o)

push_reading(en, o) == IF ~en THEN Disabled ELSE PostResult("/readings", o)
push_analysis(en, o) == IF ~en THEN Disabled ELSE PostResult("/analysis", o)
push_alert(en, o) == IF ~en THEN Disabled ELSE PostResult("/alerts", o)

NoPush ==
    [op |-> "none", ret |-> FALSE, raised |-> FALSE, sent |-> <<>>, outcome |-> NoHttp,
     reading |-> <<>>, recommendation |-> <<>>]

\* the reading of the tests' sample_reading fixture
SampleReading == SensorReading(0, 22, 60, 500, 5000)

ApiIdle ==
    /\ base_url = "None"
    /\ api_key = "None"
    /\ enabled = FALSE
    /\ http_log = <<>>
    /\ push = NoPush

\* APIClient.__init__(base_url, api_key), with the two environment variables
ApiInit ==
    /\ \E a \in UrlArgs, e \in UrlEnvs : base_url = PyOr(a, e)
    /\ \E a \in KeyArgs, e \in KeyEnvs : api_key = PyOr(a, e)
    /\ enabled = (Truthy(base_url) /\ Truthy(api_key))
    /\ http_log = <<>>
    /\ push = NoPush

\* the effect of one push call, given the recommendation rec (<<>> when the
\* call takes none), whose result is res
Pushed(name, res, rec) ==
    /\ push' = [op |-> name, ret |-> res.ret, raised |-> res.raised,
                sent |-> res.sent, outcome |-> res.outcome,
                reading |-> reading, recommendation |-> rec]
    /\ http_log' = http_log \o res.sent
    /\ UNCHANGED <<base_url, api_key, enabled, besideApi>>

\* api.push_reading(reading)
PushReading ==
    /\ HasReading
    /\ Len(http_log) < MaxRequests
    /\ \E o \in HttpOutcomes : Pushed("push_reading", push_reading(enabled, o), <<>>)

\* api.push_analysis(reading, recommendation)
PushAnalysis ==
    /\ HasReading
    /\ Len(http_log) < MaxRequests
    /\ \E o \in HttpOutcomes : Pushed("push_analysis", push_analysis(enabled, o), AllOptimal)

\* api.push_alert(alert_type, message, reading)
PushAlert ==
    /\ Len(http_log) < MaxRequests
    /\ \E o \in HttpOutcomes : Pushed("push_alert", push_alert(enabled, o), <<>>)

ApiNext ==
    \/ PushReading
    \/ PushAnalysis
    \/ PushAlert

(***************************************************************************)
(* sensors.py                                                              *)
(***************************************************************************)
\* the system clock runs from 0 to MaxClock
MaxClock == 2
\* the local-time offsets that can be in force are 0..MaxOffset
MaxOffset == 1

\* MockSensors.__init__: the base values, which no method changes
MockBaseTemp == 22
MockBaseHumidity == 65
MockBaseCo2 == 450
MockBaseLight == 5000

\* the windows of the four random.uniform calls of MockSensors.read
TempNoise == 2
HumidityNoise == 5
Co2Noise == 50
LightNoise == 1000

\* a plausible slip: noise three times as wide as the window
UniformTripled(w) == {0 - 3 * w, 0, 3 * w}

\* random.uniform(-w, w), sampled at both ends and in the middle
Uniform(w) == {0 - w, 0, w}

\* the four draws of one MockSensors.read
NoiseDraws == Uniform(TempNoise) \X Uniform(HumidityNoise) \X Uniform(Co2Noise) \X Uniform(LightNoise)

\* datetime.now(): the naive local time, the system clock plus the local offset
DatetimeNow == clock + utc_offset

\* a plausible slip: the humidity and CO2 expressions given to each other's field
MockReadFieldsExchanged(now, n) ==
    SensorReading(now,
                  MockBaseTemp + n[1],
                  PyMax(300, MockBaseCo2 + n[3]),
                  PyMax(0, PyMin(100, MockBaseHumidity + n[2])),
                  PyMax(0, MockBaseLight + n[4]))

\* MockSensors.read, at local time now with the noise draws n
MockRead(now, n) ==
    SensorReading(now,
                  MockBaseTemp + n[1],
                  PyMax(0, PyMin(100, MockBaseHumidity + n[2])),
                  PyMax(300, MockBaseCo2 + n[3]),
                  PyMax(0, MockBaseLight + n[4]))

\* An optional number is <<>> (None) or <<v>>.  "x or d" for such an x: d when x
\* is None or 0, which are the falsy numbers
OrDefault(x, d) == IF x = <<>> THEN d ELSE IF x[1] = 0 THEN d ELSE x[1]

\* what reading self._dht.temperature and self._dht.humidity does: raise, or
\* give two optional numbers (the driver gives None when it has no value yet)
DhtOutcomes ==
    {[kind |-> "raise", temperature |-> <<>>, humidity |-> <<>>]}
        \cup {[kind |-> "values", temperature |-> t, humidity |-> h] :
                t \in {<<>>, <<0>>, <<21>>}, h \in {<<>>, <<0>>, <<45>>}}

\* sample values of the two data bytes of a frame: of the MH-Z19 (200, 400 and
\* 1000 ppm) and of the BH1750 (counts 0, 6000 and 65535)
Co2Data == {<<0, 200>>, <<1, 144>>, <<3, 232>>}
LightData == {<<0, 0>>, <<23, 112>>, <<255, 255>>}

\* what the serial exchange of _read_co2 does: raise, or return the bytes read
\* (nine when the frame is complete, fewer on a timeout)
Co2Outcomes ==
    {[kind |-> "raise", response |-> <<>>]}
        \cup {[kind |-> "bytes", response |-> <<255, 134>>]}
        \cup {[kind |-> "bytes", response |-> <<255, 134, d[1], d[2], 0, 0, 0, 0, 0>>] :
                d \in Co2Data}

\* a plausible slip: a failed exchange reported as 0 ppm
read_co2_zero_on_failure(o) ==
    IF o.kind = "raise" THEN 0
    ELSE IF Len(o.response) = 9 THEN o.response[3] * 256 + o.response[4]
    ELSE 400

\* RaspberryPiSensors._read_co2 (response[2], response[3] are the third and
\* fourth bytes)
read_co2(o) ==
    IF o.kind = "raise" THEN 400
    ELSE IF Len(o.response) = 9 THEN o.response[3] * 256 + o.response[4]
    ELSE 400

\* what the I2C exchange of _read_light does: raise, or return two bytes
LightOutcomes ==
    {[kind |-> "raise", data |-> <<>>]}
        \cup {[kind |-> "bytes", data |-> d] : d \in LightData}

\* RaspberryPiSensors._read_light; (data[0] << 8 | data[1]) / 1.2 is kept to
\* whole lux
read_light(o) ==
    IF o.kind = "raise" THEN 5000
    ELSE ((o.data[1] * 256 + o.data[2]) * 10) \div 12

\* what the hardware does during one read of an initialized RaspberryPiSensors
HardwareOutcomes == [dht : DhtOutcomes, co2 : Co2Outcomes, light : LightOutcomes]

\* the draws of a read that consults no random number, and the hardware of a
\* read that consults no hardware
NoDraws == <<0, 0, 0, 0>>
NoHardware ==
    [dht |-> [kind |-> "raise", temperature |-> <<>>, humidity |-> <<>>],
     co2 |-> [kind |-> "raise", response |-> <<>>],
     light |-> [kind |-> "raise", data |-> <<>>]]

\* RaspberryPiSensors.read: n is drawn only by the mock fallback, hw is
\* consulted only when the sensors are initialized
RaspberryPiRead(init, now, n, hw) ==
    IF ~init THEN MockRead(now, n)
    ELSE LET temp == IF hw.dht.kind = "raise" THEN <<22>> ELSE hw.dht.temperature
             humidity == IF hw.dht.kind = "raise" THEN <<60>> ELSE hw.dht.humidity
         IN  SensorReading(now, OrDefault(temp, 22), OrDefault(humidity, 60),
                           read_co2(hw.co2), read_light(hw.light))

\* the sliding window of the last two timestamps returned
LastTwo(s) == IF Len(s) <= 2 THEN s ELSE SubSeq(s, Len(s) - 1, Len(s))

SensorsIdle ==
    /\ sensors = "none"
    /\ initialized = FALSE
    /\ timestamps = <<>>
    /\ hardware = NoHardware
    /\ clock = 0
    /\ utc_offset = 0

\* get_sensor_interface(use_mock); for the real source, _init_sensors succeeds
\* or not
SensorsInit ==
    /\ sensors \in {"mock", "real"}
    /\ initialized \in (IF sensors = "real" THEN BOOLEAN ELSE {FALSE})
    /\ timestamps = <<>>
    /\ hardware = NoHardware
    /\ clock = 0
    /\ utc_offset \in 0..MaxOffset

\* the effect of a read that consulted the hardware hw and returns r
Returned(r, hw) ==
    /\ reading' = <<r>>
    /\ timestamps' = LastTwo(Append(timestamps, r.timestamp))
    /\ hardware' = hw
    /\ UNCHANGED <<sensors, initialized, clock, utc_offset, besideSensors>>

\* sensors.read() on a MockSensors
MockSensorsRead ==
    /\ sensors = "mock"
    /\ \E n \in NoiseDraws : Returned(MockRead(DatetimeNow, n), NoHardware)

\* sensors.read() on a RaspberryPiSensors
RaspberryPiSensorsRead ==
    /\ sensors = "real"
    /\ \E n \in (IF initialized THEN {NoDraws} ELSE NoiseDraws),
          hw \in (IF initialized THEN HardwareOutcomes ELSE {NoHardware}) :
          Returned(RaspberryPiRead(initialized, DatetimeNow, n, hw), hw)

\* time passes
Tick ==
    /\ clock < MaxClock
    /\ clock' = clock + 1
    /\ UNCHANGED <<sensors, initialized, timestamps, hardware, utc_offset, reading, besideSensors>>

\* the local offset changes: daylight saving time begins or ends, or the time
\* zone is set
SetLocalOffset ==
    /\ utc_offset' \in (0..MaxOffset) \ {utc_offset}
    /\ UNCHANGED <<sensors, initialized, timestamps, hardware, clock, reading, besideSensors>>

SensorsNext ==
    \/ MockSensorsRead
    \/ RaspberryPiSensorsRead
    \/ Tick
    \/ SetLocalOffset

(***************************************************************************)
(* main.py                                                                 *)
(***************************************************************************)
\* a run of main is followed for MaxIterations iterations of its loop
MaxIterations == 2
\* --interval is -1..MaxInterval, --ai-interval is 0..MaxAiInterval
MaxInterval == 1
MaxAiInterval == 1

\* "Initializing... gathering first readings."
Placeholder ==
    <<"I", "n", "i", "t", "i", "a", "l", "i", "z", "i", "n", "g", ".", ".",
      ".", " ", "g", "a", "t", "h", "e", "r", "i", "n", "g", " ", "f", "i",
      "r", "s", "t", " ", "r", "e", "a", "d", "i", "n", "g", "s", ".">>

\* a plausible slip: the watermark started at the time of the start
InitialWatermarkNow == clock

InitialWatermark == 0

\* a plausible slip: an advisory only when more than the interval has passed
DueStrict(now, last, ai_interval) == now - last > ai_interval

\* the test of the if statement
Due(now, last, ai_interval) == now - last >= ai_interval

\* a plausible slip: the watermark assignment outside the if statement
NextPcWatermarkAlways(at, due) ==
    CASE at = "read" -> "push_reading"
      [] at = "push_reading" -> "sample_time"
      [] at = "sample_time" -> (IF due THEN "advise" ELSE "set_watermark")
      [] at = "advise" -> "push_analysis"
      [] at = "push_analysis" -> "set_watermark"
      [] at = "set_watermark" -> "render"
      [] at = "render" -> "sleep"
      [] at = "sleep" -> "sleeping"
      [] at = "sleeping" -> "read"

\* a plausible slip: the reading pushed after the advisory
NextPcPushAfterAdvise(at, due) ==
    CASE at = "read" -> "sample_time"
      [] at = "sample_time" -> (IF due THEN "advise" ELSE "push_reading")
      [] at = "advise" -> "push_reading"
      [] at = "push_reading" -> (IF due THEN "push_analysis" ELSE "render")
      [] at = "push_analysis" -> "set_watermark"
      [] at = "set_watermark" -> "render"
      [] at = "render" -> "sleep"
      [] at = "sleep" -> "sleeping"
      [] at = "sleeping" -> "read"

\* a plausible slip: the analysis pushed before the advisor is asked
NextPcAnalysisFirst(at, due) ==
    CASE at = "read" -> "push_reading"
      [] at = "push_reading" -> "sample_time"
      [] at = "sample_time" -> (IF due THEN "push_analysis" ELSE "render")
      [] at = "push_analysis" -> "advise"
      [] at = "advise" -> "set_watermark"
      [] at = "set_watermark" -> "render"
      [] at = "render" -> "sleep"
      [] at = "sleep" -> "sleeping"
      [] at = "sleeping" -> "read"

\* the statement that follows the statement at, when it completes normally;
\* due is the value of the if test
NextPc(at, due) ==
    CASE at = "read" -> "push_reading"
      [] at = "push_reading" -> "sample_time"
      [] at = "sample_time" -> (IF due THEN "advise" ELSE "render")
      [] at = "advise" -> "push_analysis"
      [] at = "push_analysis" -> "set_watermark"
      [] at = "set_watermark" -> "render"
      [] at = "render" -> "sleep"
      [] at = "sleep" -> "sleeping"
      [] at = "sleeping" -> "read"

\* what the environment does during a run of main: the noise drawn, the
\* hardware's answers (every device raising; 21 C, 45 %, 1000 ppm and 0 lux
\* measured), the recommendation service's and the HTTP server's answers
LoopNoise == {NoDraws, <<TempNoise, HumidityNoise, 0 - Co2Noise, LightNoise>>}
LoopHardware ==
    {NoHardware,
     [dht |-> [kind |-> "values", temperature |-> <<21>>, humidity |-> <<45>>],
      co2 |-> [kind |-> "bytes", response |-> <<255, 134, 3, 232, 0, 0, 0, 0, 0>>],
      light |-> [kind |-> "bytes", data |-> <<0, 0>>]]}
LoopServiceOutcomes ==
    {[kind |-> "raise", error |-> "APIConnectionError", content |-> <<>>],
     [kind |-> "response", error |-> "",
      content |-> <<[type |-> "text", text |-> <<"M", "i", "s", "t">>]>>]}
LoopHttpOutcomes ==
    {[kind |-> "raise", error |-> "ConnectError", status_code |-> 0],
     [kind |-> "response", error |-> "", status_code |-> HTTP_OK]}

\* the environment variables main runs with: AIVOCADO_API_URL and
\* AIVOCADO_API_KEY both unset, or both set
LoopEnvs == {<<"None", "None">>, <<"http://env", "env-key">>}

\* the default of create_bar's width
DefaultWidth == 30

LoopIdle ==
    /\ args = [interval |-> 0, ai_interval |-> 0]
    /\ pc = "none"
    /\ iteration = 0
    /\ steps = <<>>
    /\ last_ai_update = 0
    /\ current_time = 0
    /\ current_recommendation = <<>>
    /\ wake_at = 0
    /\ exception = ""
    /\ exit_status = <<>>

\* main up to the try statement
LoopInit ==
    /\ args \in [interval : (0 - 1)..MaxInterval, ai_interval : 0..MaxAiInterval]
    /\ pc = "read"
    /\ iteration = 0
    /\ steps = <<>>
    /\ last_ai_update = InitialWatermark
    /\ current_time = 0
    /\ current_recommendation = Placeholder
    /\ wake_at = 0
    /\ exception = ""
    /\ exit_status = <<>>

\* the statement at pc completes normally
Completes(due) ==
    /\ pc' = NextPc(pc, due)
    /\ steps' = Append(steps, pc)

\* an exception no handler of main catches leaves the loop: traceback, status 1
Propagates(exc) ==
    /\ pc' = "done"
    /\ exception' = exc
    /\ exit_status' = <<1>>

\* reading = sensors.read()
LoopRead ==
    /\ pc = "read"
    /\ iteration < MaxIterations
    /\ \E n \in (IF sensors = "real" /\ initialized THEN {NoDraws} ELSE LoopNoise),
          hw \in (IF sensors = "real" /\ initialized THEN LoopHardware ELSE {NoHardware}) :
          LET r == IF sensors = "mock" THEN MockRead(DatetimeNow, n)
                   ELSE RaspberryPiRead(initialized, DatetimeNow, n, hw)
          IN  /\ reading' = <<r>>
              /\ timestamps' = LastTwo(Append(timestamps, r.timestamp))
              /\ hardware' = hw
    /\ iteration' = iteration + 1
    /\ pc' = NextPc(pc, FALSE)
    /\ steps' = <<pc>>
    /\ UNCHANGED <<displayVars, advisorVars, apiVars, sensors, initialized, clock, utc_offset,
                   args, last_ai_update, current_time, current_recommendation, wake_at,
                   exception, exit_status>>

\* the effect on the client of a push, given the recommendation rec (<<>>
\* when the call takes none), whose result is res
LoopPushed(name, res, rec) ==
    /\ push' = [op |-> name, ret |-> res.ret, raised |-> res.raised,
                sent |-> res.sent, outcome |-> res.outcome,
                reading |-> reading, recommendation |-> rec]
    /\ http_log' = http_log \o res.sent
    /\ IF res.raised
       THEN Propagates("Exception") /\ UNCHANGED steps
       ELSE Completes(FALSE) /\ UNCHANGED <<exception, exit_status>>
    /\ UNCHANGED <<displayVars, reading, advisorVars, base_url, api_key, enabled, sensorVars,
                   args, iteration, last_ai_update, current_time, current_recommendation,
                   wake_at>>

\* api.push_reading(reading)
LoopPushReading ==
    /\ pc = "push_reading"
    /\ \E o \in (IF enabled THEN LoopHttpOutcomes ELSE {NoHttp}) :
          LoopPushed("push_reading", push_reading(enabled, o), <<>>)

\* current_time = time.time() and the test of the if statement
LoopSampleTime ==
    /\ pc = "sample_time"
    /\ current_time' = clock
    /\ Completes(Due(clock, last_ai_update, args.ai_interval))
    /\ UNCHANGED <<displayVars, reading, advisorVars, apiVars, sensorVars, args, iteration,
                   last_ai_update, current_recommendation, wake_at, exception, exit_status>>

\* current_recommendation = advisor.get_recommendation(reading)
LoopAdvise ==
    /\ pc = "advise"
    /\ \E o \in (IF client THEN LoopServiceOutcomes ELSE {NotCalled}) :
          LET res == get_recommendation(Current, client, o)
          IN  /\ advice' = [op |-> "get_recommendation", ret |-> res.ret,
                            raised |-> res.raised, service_calls |-> res.service_calls,
                            outcome |-> res.outcome]
              /\ IF res.raised
                 THEN Propagates("Exception") /\ UNCHANGED <<steps, current_recommendation>>
                 ELSE /\ current_recommendation' = res.ret
                      /\ Completes(FALSE)
                      /\ UNCHANGED <<exception, exit_status>>
    /\ UNCHANGED <<displayVars, reading, client, apiVars, sensorVars, args, iteration,
                   last_ai_update, current_time, wake_at>>

\* api.push_analysis(reading, current_recommendation)
LoopPushAnalysis ==
    /\ pc = "push_analysis"
    /\ \E o \in (IF enabled THEN LoopHttpOutcomes ELSE {NoHttp}) :
          LoopPushed("push_analysis", push_analysis(enabled, o), current_recommendation)

\* last_ai_update = current_time
LoopSetWatermark ==
    /\ pc = "set_watermark"
    /\ last_ai_update' = current_time
    /\ Completes(FALSE)
    /\ UNCHANGED <<displayVars, reading, advisorVars, apiVars, sensorVars, args, iteration,
                   current_time, current_recommendation, wake_at, exception, exit_status>>

\* display_reading(reading, current_recommendation): value, status and bar
\* are left as its last calls, those for the light level, leave them
LoopRender ==
    /\ pc = "render"
    /\ value' = Current.light_lux
    /\ optimal_range' = OPTIMAL_RANGES.light
    /\ status' = get_status_indicator(Current.light_lux, OPTIMAL_RANGES.light)
    /\ min_val' = 0
    /\ max_val' = 20000
    /\ width' = DefaultWidth
    /\ bar' = create_bar(Current.light_lux, 0, 20000, DefaultWidth)
    /\ ai_recommendation' = current_recommendation
    /\ lines' = <<AdvisoryLines(current_recommendation)>>
    /\ Completes(FALSE)
    /\ UNCHANGED <<reading, advisorVars, apiVars, sensorVars, args, iteration, last_ai_update,
                   current_time, current_recommendation, wake_at, exception, exit_status>>

\* time.sleep(args.interval) is called: it raises ValueError for a negative
\* length, and else blocks until the interval has passed
LoopSleep ==
    /\ pc = "sleep"
    /\ IF args.interval < 0
       THEN Propagates("ValueError") /\ UNCHANGED wake_at
       ELSE /\ pc' = NextPc(pc, FALSE)
            /\ wake_at' = clock + args.interval
            /\ UNCHANGED <<exception, exit_status>>
    /\ UNCHANGED <<displayVars, reading, advisorVars, apiVars, sensorVars, args, iteration,
                   steps, last_ai_update, current_time, current_recommendation>>

\* time.sleep returns
LoopWake ==
    /\ pc = "sleeping"
    /\ clock >= wake_at
    /\ pc' = NextPc(pc, FALSE)
    /\ steps' = Append(steps, "sleep")
    /\ UNCHANGED <<displayVars, reading, advisorVars, apiVars, sensorVars, args, iteration,
                   last_ai_update, current_time, current_recommendation, wake_at,
                   exception, exit_status>>

\* Ctrl-C while the try statement runs: except KeyboardInterrupt, sys.exit(0)
KeyboardInterrupt ==
    /\ pc \notin {"none", "done"}
    /\ pc' = "done"
    /\ exception' = "KeyboardInterrupt"
    /\ exit_status' = <<0>>
    /\ UNCHANGED <<displayVars, reading, advisorVars, apiVars, sensorVars, args, iteration,
                   steps, last_ai_update, current_time, current_recommendation, wake_at>>

LoopNext ==
    \/ LoopRead
    \/ LoopPushReading
    \/ LoopSampleTime
    \/ LoopAdvise
    \/ LoopPushAnalysis
    \/ LoopSetWatermark
    \/ LoopRender
    \/ LoopSleep
    \/ LoopWake
    \/ KeyboardInterrupt
    \/ Tick

(***************************************************************************)
(* Specifications                                                          *)
(***************************************************************************)
InitDisplay == DisplayInit /\ reading = <<>> /\ AdvisorIdle /\ ApiIdle /\ SensorsIdle /\ LoopIdle
SpecDisplay == InitDisplay /\ [][DisplayNext]_vars

InitBar == BarInit /\ reading = <<>> /\ AdvisorIdle /\ ApiIdle /\ SensorsIdle /\ LoopIdle
SpecBar == InitBar /\ [][BarNext]_vars

InitWrap ==
    WrapInit /\ reading = <<SampleReading>> /\ AdvisorIdle /\ ApiIdle /\ SensorsIdle /\ LoopIdle
SpecWrap == InitWrap /\ [][WrapNext]_vars

InitAdvisor ==
    /\ DisplayIdle
    /\ \E r \in ReadingInputs : reading = <<r>>
    /\ AdvisorInit
    /\ ApiIdle
    /\ SensorsIdle
    /\ LoopIdle
SpecAdvisor == InitAdvisor /\ [][AdvisorNext]_vars

InitApi ==
    DisplayIdle /\ reading = <<SampleReading>> /\ AdvisorIdle /\ ApiInit /\ SensorsIdle /\ LoopIdle
SpecApi == InitApi /\ [][ApiNext]_vars

InitSensors == DisplayIdle /\ reading = <<>> /\ AdvisorIdle /\ ApiIdle /\ SensorsInit /\ LoopIdle
SpecSensors == InitSensors /\ [][SensorsNext]_vars

\* main: get_sensor_interface, AIAdvisor() and APIClient() without arguments,
\* then the loop
InitMain ==
    /\ DisplayIdle
    /\ reading = <<>>
    /\ \E env \in KeyInputs : client = Truthy(PyOr("None", env))
    /\ advice = NoAdvice
    /\ \E env \in LoopEnvs :
          /\ base_url = PyOr("None", env[1])
          /\ api_key = PyOr("None", env[2])
    /\ enabled = (Truthy(base_url) /\ Truthy(api_key))
    /\ http_log = <<>>
    /\ push = NoPush
    /\ sensors \in {"mock", "real"}
    /\ initialized \in (IF sensors = "real" THEN BOOLEAN ELSE {FALSE})
    /\ timestamps = <<>>
    /\ hardware = NoHardware
    /\ clock \in 0..MaxClock
    /\ utc_offset = 0
    /\ LoopInit
SpecMain == InitMain /\ [][LoopNext]_vars

(***************************************************************************)
(* Vocabulary of the properties, stated from the specification             *)
(***************************************************************************)
Metrics == <<"temperature", "humidity", "co2", "light">>

MetricValue(r, m) ==
    CASE m = "temperature" -> r.temperature_c
      [] m = "humidity" -> r.humidity_percent
      [] m = "co2" -> r.co2_ppm
      [] m = "light" -> r.light_lux

\* BELOW, WITHIN or ABOVE the optimal range, boundaries being WITHIN
Direction(r, m) ==
    IF MetricValue(r, m) < OPTIMAL_RANGES[m][1] THEN "BELOW"
    ELSE IF MetricValue(r, m) > OPTIMAL_RANGES[m][2] THEN "ABOVE"
    ELSE "WITHIN"

\* the sentence fixed for a metric and a direction
SentenceFor(m, d) ==
    CASE m = "temperature" -> (IF d = "BELOW" THEN IssueTempLow ELSE IssueTempHigh)
      [] m = "humidity" -> (IF d = "BELOW" THEN IssueHumLow ELSE IssueHumHigh)
      [] m = "co2" -> (IF d = "BELOW" THEN IssueCo2Low ELSE IssueCo2High)
      [] m = "light" -> (IF d = "BELOW" THEN IssueLightLow ELSE IssueLightHigh)

IssueSentences ==
    {SentenceFor(Metrics[i], d) : i \in 1..4, d \in {"BELOW", "ABOVE"}}

\* the metrics out of range, in priority order
OutOfRange(r) == SelectSeq(Metrics, LAMBDA m : Direction(r, m) # "WITHIN")

\* how many issue sentences a text carries
IssueCount(text) ==
    Cardinality({<<s, i>> \in IssueSentences \X (1..Len(text)) : i \in Occurrences(s, text)})

\* how often the sentence s stands in the list iss
TimesIn(s, iss) == Cardinality({i \in 1..Len(iss) : iss[i] = s})

\* str.lower, on the letters the texts use
UpperCase == <<"A", "B", "C", "D", "E", "F", "G", "H", "I", "J", "K", "L", "M",
               "N", "O", "P", "Q", "R", "S", "T", "U", "V", "W", "X", "Y", "Z">>
LowerCase == <<"a", "b", "c", "d", "e", "f", "g", "h", "i", "j", "k", "l", "m",
               "n", "o", "p", "q", "r", "s", "t", "u", "v", "w", "x", "y", "z">>
LowerChar(c) ==
    IF \E i \in 1..26 : UpperCase[i] = c
    THEN LowerCase[CHOOSE i \in 1..26 : UpperCase[i] = c]
    ELSE c
Lower(text) == [i \in 1..Len(text) |-> LowerChar(text[i])]

\* the Reading invariants of the data model
ReadingInvariants(r) ==
    /\ 0 <= r.humidity_percent
    /\ r.humidity_percent <= 100
    /\ r.co2_ppm >= 300
    /\ r.light_lux >= 0

(***************************************************************************)
(* Properties                                                              *)
(***************************************************************************)

\* C1: get_status_indicator returns exactly one of the three tokens: [OK]
\* exactly when low <= value <= high (boundaries included), [LOW] exactly when
\* value < low, [HIGH] exactly when value > high.
C1_StatusIndicatorClassifies ==
    status # NoStatus =>
        LET low == optimal_range[1]
            high == optimal_range[2]
        IN  /\ status \in {"[OK]", "[LOW]", "[HIGH]"}
            /\ (status = "[OK]") <=> (low <= value /\ value <= high)
            /\ (status = "[LOW]") <=> (value < low)
            /\ (status = "[HIGH]") <=> (value > high)

\* C1 witness: a value on the upper boundary has been classified
C1_Witness ==
    /\ status # NoStatus
    /\ value = optimal_range[2]

\* C2: for a reading with a metric out of range the fallback text is the
\* sentence of the first out-of-range metric in the order temperature,
\* humidity, CO2, light, followed, when there is a second one, by " | " and its
\* sentence; no further issue is carried, so the text holds at most two
\* issues and at most one separator.
C2_FallbackFirstTwoIssues ==
    (advice.op = "fallback" /\ OutOfRange(Current) # <<>>) =>
        LET out == OutOfRange(Current)
            first == SentenceFor(out[1], Direction(Current, out[1]))
        IN  /\ advice.ret =
                  IF Len(out) = 1 THEN first
                  ELSE first \o Separator \o SentenceFor(out[2], Direction(Current, out[2]))
            /\ IssueCount(advice.ret) <= 2
            /\ Cardinality(Occurrences(Separator, advice.ret)) <= 1

\* C2 witness: the fallback has answered a reading with all four metrics out
\* of range
C2_Witness ==
    /\ advice.op = "fallback"
    /\ Len(OutOfRange(Current)) = 4

\* C3: for a reading with all four metrics within range (boundaries included)
\* the fallback text is the all-clear message, which contains "optimal" when
\* lowered and holds no issue sentence and no separator.
C3_FallbackAllClear ==
    (advice.op = "fallback" /\ OutOfRange(Current) = <<>>) =>
        /\ advice.ret = AllOptimal
        /\ Contains(<<"o", "p", "t", "i", "m", "a", "l">>, Lower(advice.ret))
        /\ IssueCount(advice.ret) = 0
        /\ ~Contains(Separator, advice.ret)

\* C3 witness: the fallback has answered a reading whose metrics all sit on a
\* boundary of their range
C3_Witness ==
    /\ advice.op = "fallback"
    /\ Current.temperature_c = TempLow
    /\ Current.humidity_percent = HumHigh
    /\ Current.co2_ppm = Co2Low
    /\ Current.light_lux = LightHigh

\* C4: in the fallback each metric puts at most one sentence on the issue
\* list: the low sentence when below range, the high sentence when above,
\* none when within; and a reading with temperature below (above) range gets a
\* text with the low (high) temperature sentence whatever the other metrics.
C4_FallbackSentencePerMetric ==
    advice.op = "fallback" =>
        /\ \A i \in 1..4 :
              LET m == Metrics[i]
                  d == Direction(Current, m)
                  nlow == TimesIn(SentenceFor(m, "BELOW"), Issues(Current))
                  nhigh == TimesIn(SentenceFor(m, "ABOVE"), Issues(Current))
              IN  /\ d = "BELOW" => (nlow = 1 /\ nhigh = 0)
                  /\ d = "ABOVE" => (nlow = 0 /\ nhigh = 1)
                  /\ d = "WITHIN" => (nlow = 0 /\ nhigh = 0)
        /\ Len(Issues(Current)) = Len(OutOfRange(Current))
        /\ Direction(Current, "temperature") = "BELOW" =>
              (Contains(IssueTempLow, advice.ret) /\ ~Contains(IssueTempHigh, advice.ret))
        /\ Direction(Current, "temperature") = "ABOVE" =>
              (Contains(IssueTempHigh, advice.ret) /\ ~Contains(IssueTempLow, advice.ret))

\* C4 witness: the fallback has answered a reading with temperature below
\* range and the other three metrics above range
C4_Witness ==
    /\ advice.op = "fallback"
    /\ Direction(Current, "temperature") = "BELOW"
    /\ \A i \in 2..4 : Direction(Current, Metrics[i]) = "ABOVE"

\* C5: get_recommendation never raises; without a client it returns the
\* fallback text and does not call the service; with a client it returns the
\* service's text when the call succeeds and the fallback text when the call
\* raises or the response is malformed.
C5_GetRecommendationNeverRaises ==
    advice.op = "get_recommendation" =>
        LET o == advice.outcome
            succeeded == /\ o.kind = "response"
                         /\ Len(o.content) > 0
                         /\ o.content[1].type = "text"
        IN  /\ ~advice.raised
            /\ ~client => /\ advice.service_calls = 0
                          /\ advice.ret = get_fallback_recommendation(Current)
            /\ (client /\ succeeded) => advice.ret = o.content[1].text
            /\ (client /\ ~succeeded) => /\ advice.service_calls = 1
                                         /\ advice.ret = get_fallback_recommendation(Current)

\* C5 witness: with a client, the service has answered a response with no
\* content block and the fallback text came back
C5_Witness ==
    /\ advice.op = "get_recommendation"
    /\ client
    /\ advice.outcome.kind = "response"
    /\ advice.outcome.content = <<>>
    /\ ~advice.raised

\* C6: the telemetry client is enabled only when both the endpoint URL and
\* the credential are present; when either is absent every push returns False
\* and no HTTP request is attempted.
C6_DisabledClientSendsNothing ==
    /\ enabled <=> (Truthy(base_url) /\ Truthy(api_key))
    /\ ~enabled =>
          /\ http_log = <<>>
          /\ push.op # "none" => (~push.ret /\ push.sent = <<>> /\ ~push.raised)

\* C6 witness: a push_alert has returned on a client that has the URL but no
\* credential
C6_Witness ==
    /\ Truthy(base_url)
    /\ ~Truthy(api_key)
    /\ push.op = "push_alert"

\* C7: on an enabled client each push makes exactly one HTTP attempt, does
\* not raise, and returns True exactly when the response status is 200: False
\* on any other status and on any exception of the HTTP call.
C7_EnabledPushOneAttempt ==
    (enabled /\ push.op # "none") =>
        /\ Len(push.sent) = 1
        /\ ~push.raised
        /\ push.ret <=> (push.outcome.kind = "response" /\ push.outcome.status_code = 200)

\* C7 witness: an enabled push_analysis got status 201 and returned False
C7_Witness ==
    /\ enabled
    /\ push.op = "push_analysis"
    /\ push.outcome.status_code = 201
    /\ ~push.ret

\* C8: every reading MockSensors.read returns, after any number of earlier
\* reads, has 0 <= humidity_percent <= 100, co2_ppm >= 300 and light_lux >= 0.
C8_MockReadingInvariants ==
    (sensors = "mock" /\ HasReading) => ReadingInvariants(Current)

\* C8 witness: a MockSensors has returned at least two readings
C8_Witness ==
    /\ sensors = "mock"
    /\ HasReading
    /\ Len(timestamps) = 2

\* C9: every reading returned by read() of any source of get_sensor_interface
\* (the mock simulator or the real-sensor adapter) satisfies the Reading
\* invariants.  RaspberryPiSensors.read returns the MH-Z19 value unclamped.
C9_ReadingInvariantsAnySource ==
    HasReading => ReadingInvariants(Current)

\* C10: across successive read() calls on one source the timestamps of the
\* readings never decrease.  The timestamp is datetime.now(), the naive local
\* time, which steps back when the local offset does.
C10_TimestampsNonDecreasing ==
    Len(timestamps) = 2 => timestamps[1] <= timestamps[2]

\* what MockSensors.read can return: each metric within its noise window
\* around the base value
IsMockOutput(r) ==
    /\ MockBaseTemp - TempNoise <= r.temperature_c
    /\ r.temperature_c <= MockBaseTemp + TempNoise
    /\ MockBaseHumidity - HumidityNoise <= r.humidity_percent
    /\ r.humidity_percent <= MockBaseHumidity + HumidityNoise
    /\ MockBaseCo2 - Co2Noise <= r.co2_ppm
    /\ r.co2_ppm <= MockBaseCo2 + Co2Noise
    /\ MockBaseLight - LightNoise <= r.light_lux
    /\ r.light_lux <= MockBaseLight + LightNoise

\* the last read of the real source met a failure: the sensors were never
\* initialized, or a device read raised
RealSourceFailed ==
    /\ sensors = "real"
    /\ HasReading
    /\ \/ ~initialized
       \/ hardware.dht.kind = "raise"
       \/ hardware.co2.kind = "raise"
       \/ hardware.light.kind = "raise"

FilledCells ==
    IF value <= min_val THEN 0
    ELSE IF value >= max_val THEN width
    ELSE ((value - min_val) * width) \div (max_val - min_val)

RECURSIVE WordsOf(_)
WordsOf(ls) == IF ls = <<>> THEN <<>> ELSE Split(Head(ls)) \o WordsOf(Tail(ls))

\* every word fits on a line beside the indent
WordsFit(text) == \A i \in 1..Len(Split(text)) : Len(Split(text)[i]) + 2 <= 58

\* the part of C15 the code keeps: for a text whose words each fit on a line
\* no advisory line is wider than 58 characters, and the words of the lines
\* are the words of the text, whole and in order
WrapKeepsWidthAndWords ==
    lines # <<>> =>
        /\ WordsFit(ai_recommendation) => \A i \in 1..Len(lines[1]) : Len(lines[1][i]) <= 58
        /\ WordsOf(lines[1]) = Split(ai_recommendation)

\* C15: the advisory text is wrapped so that every line is at most 58
\* characters wide (for a text whose words each fit on a line), no word is
\* split, dropped or reordered, and no empty advisory line is emitted.  A
\* first word of 56 characters fits on a line, and the loop prints the bare
\* indent before it.
C15_WrapLines ==
    /\ WrapKeepsWidthAndWords
    /\ lines # <<>> => \A i \in 1..Len(lines[1]) : StripsToText(lines[1][i])

\* the status token display_reading shows for a metric of a reading
StatusToken(r, m) == get_status_indicator(MetricValue(r, m), OPTIMAL_RANGES[m])

\* "temperature too high" and "humidity too low"
PhraseTempHigh ==
    <<"t", "e", "m", "p", "e", "r", "a", "t", "u", "r", "e", " ", "t", "o",
      "o", " ", "h", "i", "g", "h">>
PhraseHumLow ==
    <<"h", "u", "m", "i", "d", "i", "t", "y", " ", "t", "o", "o", " ", "l",
      "o", "w">>

Unclamped(now, n) ==
    SensorReading(now, MockBaseTemp + n[1], MockBaseHumidity + n[2],
                  MockBaseCo2 + n[3], MockBaseLight + n[4])

IsPrefix(s, t) == Len(s) <= Len(t) /\ s = SubSeq(t, 1, Len(s))

\* the current iteration has run to the end of its sleep
IterationComplete == steps # <<>> /\ steps[Len(steps)] = "sleep"

\* the current iteration has made the step
Did(step) == \E i \in 1..Len(steps) : steps[i] = step

\* the steps of an iteration as the claim names them: read, advise, push,
\* render, sleep; a push counts when a request is attempted
Phases ==
    LET named == [i \in 1..Len(steps) |->
                    IF steps[i] \in {"push_reading", "push_analysis"} THEN "push"
                    ELSE steps[i]]
    IN  SelectSeq(named, LAMBDA x : x \in {"read", "advise", "render", "sleep"}
                                    \/ (x = "push" /\ enabled))

\* read -> optionally advise -> optionally push -> render -> sleep
ClaimedOrders ==
    {<<"read", "advise", "push", "render", "sleep">>,
     <<"read", "advise", "render", "sleep">>,
     <<"read", "push", "render", "sleep">>,
     <<"read", "render", "sleep">>}

\* the order of the statements of the loop body, with and without an advisory
LoopOrder(advising) ==
    IF advising
    THEN <<"read", "push_reading", "sample_time", "advise", "push_analysis",
           "set_watermark", "render", "sleep">>
    ELSE <<"read", "push_reading", "sample_time", "render", "sleep">>

\* C12 as stated: every iteration performs its steps in the order read ->
\* optionally advise -> optionally push -> render -> sleep.  With telemetry
\* enabled the reading is pushed before the advisory is requested.
C12_ClaimedOrder ==
    \E o \in ClaimedOrders : IsPrefix(Phases, o)

\* C12 as amended: every iteration performs its steps in the order read ->
\* push reading -> sample time -> (when an advisory is due: advise -> push
\* analysis -> set watermark) -> render -> sleep, one step at a time, and an
\* iteration begins only when the loop is entered or the sleep of the
\* iteration before it has returned.
C12_LoopOrder ==
    /\ [](IsPrefix(steps, LoopOrder(TRUE)) \/ IsPrefix(steps, LoopOrder(FALSE)))
    /\ [][iteration' # iteration =>
            /\ iteration' = iteration + 1
            /\ steps' = <<"read">>
            /\ iteration = 0 \/ (IterationComplete /\ clock >= wake_at)]_vars

\* C12 witness: with telemetry enabled, the second iteration has run all
\* eight steps of an iteration that advises
C12_Witness ==
    /\ iteration = 2
    /\ enabled
    /\ steps = LoopOrder(TRUE)
    /\ Len(http_log) = 4

\* no exception of the sensor source, the advisory service or the telemetry
\* push leaves the loop, and an iteration that reaches its sleep has rendered
ComponentFailuresNotFatal ==
    /\ exception \in {"", "KeyboardInterrupt", "ValueError"}
    /\ pc \in {"sleep", "sleeping"} => Did("render")

\* C13: no failure of the sensor source, the advisory service or the
\* telemetry push ends the loop, the iteration still renders; only a
\* top-level interrupt stops the loop, and the process then exits with status
\* 0.  With a negative --interval time.sleep raises ValueError, which no
\* handler catches.
C13_OnlyInterruptStopsLoop ==
    /\ ComponentFailuresNotFatal
    /\ pc = "done" => (exception = "KeyboardInterrupt" /\ exit_status = <<0>>)

\* C16 as stated: the watermark is the only state of the loop that changes,
\* and every iteration writes it once.  The recommendation text changes too,
\* and an iteration in which no advisory is due writes neither.
C16_WatermarkOncePerIteration ==
    pc # "none" =>
        /\ current_recommendation = Placeholder
        /\ IterationComplete => TimesIn("set_watermark", steps) = 1

\* C16 as amended: the state the loop carries from one iteration to the next
\* is the watermark and the current recommendation text.  Only the statement
\* last_ai_update = current_time writes the watermark and only the call of the
\* advisor writes the text, each at most once per iteration: once in an
\* iteration in which an advisory is due and not at all in any other.  The
\* parsed arguments never change.
C16_LoopState ==
    /\ [](/\ TimesIn("set_watermark", steps) <= 1
          /\ TimesIn("advise", steps) <= 1
          /\ IterationComplete =>
                TimesIn("set_watermark", steps) = TimesIn("advise", steps))
    /\ [][/\ last_ai_update' # last_ai_update =>
                (pc = "set_watermark" /\ last_ai_update' = current_time)
          /\ current_recommendation' # current_recommendation => pc = "advise"
          /\ args' = args]_vars

\* C16 witness: after an iteration that advised at time 1 or later, a second
\* iteration has run to its end without an advisory
C16_Witness ==
    /\ iteration = 2
    /\ IterationComplete
    /\ ~Did("advise")
    /\ ~Did("set_watermark")
    /\ last_ai_update > 0
    /\ current_recommendation # Placeholder

\* C17: in each iteration the advisor is invoked exactly when the time
\* sampled in the iteration is at least ai_interval past the watermark, and
\* the watermark is then set to that sampled time; so a request comes at
\* least ai_interval after the sampled time of the request before it, and an
\* iteration inside the interval requests no advisory.
C17_AdvisoryGate ==
    /\ [](pc = "advise" => current_time - last_ai_update >= args.ai_interval)
    /\ []((pc \in {"render", "sleep", "sleeping"} /\ ~Did("advise")) =>
              current_time - last_ai_update < args.ai_interval)
    /\ [][(pc = "sample_time" /\ pc' \notin {pc, "done"}) =>
            /\ current_time' = clock
            /\ pc' = "advise" <=> clock - last_ai_update >= args.ai_interval
            /\ pc' = "render" <=> clock - last_ai_update < args.ai_interval]_vars
    /\ [][(pc = "set_watermark" /\ pc' \notin {pc, "done"}) =>
            last_ai_update' = current_time]_vars
    /\ [][advice' # advice => pc = "advise"]_vars

\* C17 witness: the second iteration, inside the interval that the advisory
\* of the first one opened, is about to render without having asked
C17_Witness ==
    /\ iteration = 2
    /\ pc = "render"
    /\ ~Did("advise")
    /\ advice.op = "get_recommendation"
    /\ args.ai_interval > 0

\* C20: for an ai_interval not above the epoch time sampled, the first
\* iteration requests an advisory, so the first dashboard rendered shows the
\* advisory computed from the first reading, and the placeholder text is not
\* rendered.
C20_FirstIterationAdvises ==
    /\ []((iteration = 1 /\ pc \in {"render", "sleep", "sleeping"}
             /\ args.ai_interval <= current_time) =>
              /\ Did("advise")
              /\ advice.op = "get_recommendation"
              /\ advice.ret = get_recommendation(Current, client, advice.outcome).ret
              /\ current_recommendation = advice.ret
              /\ current_recommendation # Placeholder)
    /\ [][(pc = "render" /\ pc' = "sleep" /\ args.ai_interval <= current_time) =>
            /\ ai_recommendation' # Placeholder
            /\ iteration = 1 => ai_recommendation' = advice.ret]_vars

\* C20 witness: the first iteration, with an ai_interval of one second, has
\* rendered the advisory of its reading
C20_Witness ==
    /\ iteration = 1
    /\ pc = "sleep"
    /\ args.ai_interval = 1
    /\ Did("advise")
    /\ lines # <<>>
    /\ ai_recommendation = advice.ret

\* the last read was made by an initialized real-sensor adapter whose DHT22
\* gave numeric values
DhtMeasured ==
    /\ sensors = "real"
    /\ initialized
    /\ HasReading
    /\ hardware.dht.kind = "values"
    /\ hardware.dht.temperature # <<>>
    /\ hardware.dht.humidity # <<>>

\* C22: when the real-sensor adapter is initialized and the DHT22 read gives
\* numeric values, read returns exactly the measured temperature and
\* humidity, whatever the values; 22.0 and 60.0 stand in only when the read
\* raises or gives no value.  A measured 0.0 is falsy, and "temp or 22.0"
\* replaces it by the default.
C22_MeasuredDhtReturned ==
    DhtMeasured =>
        /\ Current.temperature_c = hardware.dht.temperature[1]
        /\ Current.humidity_percent = hardware.dht.humidity[1]

====
